---------------------------- MODULE Spec2Model ----------------------------
(***************************************************************************)
(* Model of the streaming adapter of mpg123/mpg123.go: DecoderReader.Read, *)
(* DecoderReader.Nuke and DecoderReader.Paranoid, together with the two    *)
(* collaborators Read talks to: the upstream io.Reader (dr.src) and the    *)
(* mpg123 handle (dr.decoder.handle), which is driven through cgo.         *)
(*                                                                         *)
(* One Read call is a sequence of loop cycles.  A cycle is two steps:      *)
(*   Upstream  lines 217-230  dr.src.Read, Decoder.Feed, the error exits   *)
(*   Poll      lines 233-255  C.mpg123_read and the switch on its status   *)
(* The caller is single threaded: Paranoid, Nuke and a new Read are only   *)
(* issued while no Read is running (pc = "idle").                          *)
(***************************************************************************)
EXTENDS Integers, Sequences, FiniteSets, TLC

(* ------------------------------ bounds --------------------------------- *)
\* longest compressed input the upstream source holds
MaxInput == 4
\* size of the scratch buffer buf of Read (64*1024 in the code), scaled down
ScratchLen == 2
\* largest caller buffer handed to Read
MaxBuf == 2
\* number of compressed bytes of one frame of the engine
FrameLen == 2

Byte == 0..1

\* the errors other than io.EOF that the upstream source can report
SrcErrors == {"errReset", "errTimeout"}

\* status codes of C.mpg123_read
Statuses == {"OK", "DONE", "NEED_MORE", "NEW_FORMAT", "ERR"}

Min(a, b) == IF a < b THEN a ELSE b

Inputs == UNION {[1..k -> Byte] : k \in 0..MaxInput}

VARIABLES
    input,      \* the compressed stream behind dr.src
    srcPos,     \* number of bytes of input dr.src has delivered so far
    paranoid,   \* dr.paranoid
    handle,     \* dr.decoder.handle: "feed" (open for feeding) or "deleted"
    inq,        \* engine: compressed bytes fed and not yet decoded
    outq,       \* engine: decoded bytes not yet copied out
    announced,  \* engine: the stream's format has been reported (NEW_FORMAT)
    pc,         \* "idle", "upstream", "poll" or "crashed"
    bytesLen,   \* len(bytes) of the running Read call
    err,        \* the local err of the running cycle
    msg,        \* status of the last C.mpg123_read of the running call
    done,       \* done of the last C.mpg123_read of the running call
    ops,        \* operations of the current cycle (or of a manual Nuke), in order
    retN,       \* byte count returned by the last Read call
    retErr,     \* error returned by the last Read call ("none" before any)
    out,        \* concatenation of the chunks returned with a nil error before
                \* end-of-stream, kept while the run is undisturbed
    eos,        \* some Read call has returned io.EOF
    closeErr,   \* the Close of the last Nuke reported an error
    formats,    \* the output formats the handle allows: a set of <<rate, channels, encoding>>
    fed,        \* the bytes handed to Decoder.Feed so far, in order
    decoder,    \* the argument of NewDecoder
    engine,     \* the decoder the engine instance was created for ("none": no instance)
    args,       \* the <<fps, channels, encoding>> the adapter was constructed with
    disturbed   \* the run left the plain streaming case: the engine rejected a
                \* feed or reported ERR, the upstream failed, or the owner called Nuke

vars == <<input, srcPos, paranoid, handle, inq, outq, announced, pc, bytesLen,
          err, msg, done, ops, retN, retErr, out, eos, closeErr, formats, fed,
          decoder, engine, args, disturbed>>

\* what NewDecoder and the constructor of the adapter leave behind
made == <<decoder, engine, args>>

(* ------------------------------ engine --------------------------------- *)
\* what the engine decodes one frame to
DecodeFrame(f) == <<(f[1] + f[FrameLen]) % 2, 1 - f[1]>>

RECURSIVE DecodeAll(_)
\* the full output of the engine for the compressed bytes s
DecodeAll(s) ==
    IF Len(s) < FrameLen THEN <<>>
    ELSE DecodeFrame(SubSeq(s, 1, FrameLen)) \o DecodeAll(SubSeq(s, FrameLen + 1, Len(s)))

\* the bytes of s after its last whole frame
Partial(s) == SubSeq(s, (Len(s) \div FrameLen) * FrameLen + 1, Len(s))

Op(name, h) == [op |-> name, h |-> h]

\* the output formats of the engine: sample rates, channel counts, encodings
Rates == {44100}
Channels == {1, 2}
Encodings == {"ENC_SIGNED_16"}
AllFormats == Rates \X Channels \X Encodings

\* C.mpg123_format_none
FormatNone(fm) == {}

\* C.mpg123_format_all
FormatAll(fm) == AllFormats

\* C.mpg123_format: the format is added to the ones allowed
Format(fm, rate, channels, encodings) == fm \cup {<<rate, channels, encodings>>}

\* a slip in the constructor: the formats allowed before are not disabled
DecoderReaderFormats_Keep(fm, fps, channels, encoding) ==
    Format(fm, fps, channels, encoding)

\* what Decoder.DecoderReader does to the allowed formats
DecoderReaderFormats(fm, fps, channels, encoding) ==
    Format(FormatNone(fm), fps, channels, encoding)


(* ------------------------ the upstream source -------------------------- *)
\* the results dr.src.Read(buf) can give when pos bytes of s were delivered
\* before: up to ScratchLen of the remaining bytes with a nil error (an
\* io.Reader may deliver none), the last bytes or none together with io.EOF
\* once nothing remains after them, or any count with another error
SrcRead(s, pos) ==
    LET rem == Len(s) - pos
        most == Min(ScratchLen, rem)
    IN  {[n |-> k, err |-> "nil"] : k \in 0..most}
        \cup {[n |-> k, err |-> "EOF"] : k \in {j \in 0..most : j = rem}}
        \cup {[n |-> k, err |-> e] : k \in 0..most, e \in SrcErrors}

(* ------------------------- the engine handle --------------------------- *)
\* C.mpg123_feed on a handle open for feeding: the bytes are queued, or the
\* engine rejects them and queues nothing
EngineFeed(q, data) ==
    {[ok |-> TRUE, inq |-> q \o data], [ok |-> FALSE, inq |-> q]}

\* C.mpg123_read on a handle open for feeding, into a buffer of sz >= 1 bytes.
\* The first whole frame makes the engine report the stream's format before it
\* decodes anything.  Afterwards it copies out what it has decoded: OK when the
\* buffer was filled, NEED_MORE (or DONE) when the input ran out first.  A
\* malformed frame gives ERR, after any count of bytes already copied, and a
\* frame in another format gives NEW_FORMAT, after the bytes copied before it.
EngineRead(q, o, ann, sz) ==
    LET avail == o \o DecodeAll(q)
        most == Min(sz, Len(avail))
        Take(m, d) == [msg |-> m, done |-> d, data |-> SubSeq(avail, 1, d),
                       inq |-> Partial(q), outq |-> SubSeq(avail, d + 1, Len(avail)),
                       announced |-> ann]
    IN  IF ~ann /\ Len(q) >= FrameLen
        THEN {[msg |-> "NEW_FORMAT", done |-> 0, data |-> <<>>,
               inq |-> q, outq |-> o, announced |-> TRUE],
              [msg |-> "ERR", done |-> 0, data |-> <<>>,
               inq |-> q, outq |-> o, announced |-> ann]}
        ELSE {Take(m, most) : m \in (IF most = sz THEN {"OK"} ELSE {"NEED_MORE", "DONE"})}
             \cup {Take("ERR", d) : d \in 0..most}
             \cup {Take("NEW_FORMAT", d) : d \in 0..(Min(sz, Len(avail) - 1))}

\* C.mpg123_read on a deleted handle is a use after free: any status and any
\* count the buffer holds (the bytes written are garbage and are not recorded)
StaleRead(sz) ==
    {[msg |-> m, done |-> d, data |-> <<>>] : m \in Statuses, d \in 0..sz}

(* --------------------------- DecoderReader ----------------------------- *)
\* a slip in the chain: the fail-fast teardown on an upstream error is left out
UpstreamBranch_NoNuke(e, p) ==
    IF e = "nil" THEN "feed"
    ELSE IF e # "EOF" THEN "fail"
    ELSE IF p THEN "nuke_eof"
    ELSE "poll"

\* a slip in the chain: an upstream error tears the handle down in both modes
UpstreamBranch_AlwaysNuke(e, p) ==
    IF e = "nil" THEN "feed"
    ELSE IF e # "EOF" THEN "nuke_fail"
    ELSE IF p THEN "nuke_eof"
    ELSE "poll"

\* the if / else-if chain after dr.src.Read: which way the cycle goes for the
\* error e of the upstream read and the flag p
UpstreamBranch(e, p) ==
    IF e = "nil" THEN "feed"
    ELSE IF e # "EOF" THEN (IF p THEN "nuke_fail" ELSE "fail")
    ELSE IF p THEN "nuke_eof"
    ELSE "poll"

\* a slip in the switch: the exhausted source is looked at before the count
PollBranch_EofFirst(m, d, e) ==
    IF m \in {"NEW_FORMAT", "OK", "DONE", "NEED_MORE"}
    THEN IF e = "EOF" THEN "eof"
         ELSE IF d > 0 THEN "bytes"
         ELSE "loop"
    ELSE "loop"

\* a slip in the switch: a poll that wrote nothing always ends the stream
PollBranch_EofOnEmpty(m, d, e) ==
    IF m \in {"NEW_FORMAT", "OK", "DONE", "NEED_MORE"}
    THEN IF d > 0 THEN "bytes" ELSE "eof"
    ELSE "loop"

\* a slip in the switch: any error left in err ends the stream, not only EOF
PollBranch_AnyErrEnds(m, d, e) ==
    IF m \in {"NEW_FORMAT", "OK", "DONE", "NEED_MORE"}
    THEN IF d > 0 THEN "bytes"
         ELSE IF e # "nil" THEN "eof"
         ELSE "loop"
    ELSE "loop"

\* a slip in the switch: a count of zero is returned like bytes
PollBranch_ZeroIsBytes(m, d, e) ==
    IF m \in {"NEW_FORMAT", "OK", "DONE", "NEED_MORE"}
    THEN IF d >= 0 THEN "bytes"
         ELSE IF e = "EOF" THEN "eof"
         ELSE "loop"
    ELSE "loop"

\* the switch on the status m of C.mpg123_read, with d bytes written and the
\* cycle's error e: return the bytes, signal end-of-stream, or go round again
PollBranch(m, d, e) ==
    IF m \in {"NEW_FORMAT", "OK", "DONE", "NEED_MORE"}
    THEN IF d > 0 THEN "bytes"
         ELSE IF e = "EOF" THEN "eof"
         ELSE "loop"
    ELSE "loop"

\* a slip in Nuke: the handle is deleted before it is closed
NukeOps_DeleteFirst(h, c) ==
    IF c = "close" THEN <<Op("delete", h)>>
    ELSE <<Op("delete", h), Op("close", h)>>

\* the engine calls of Nuke on a handle in state h: Close, then Delete.  On a
\* deleted handle either call may crash the process (c names the call that did)
NukeOps(h, c) ==
    IF c = "close" THEN <<Op("close", h)>>
    ELSE <<Op("close", h), Op("delete", h)>>

\* where a Nuke of a handle in state h can crash
NukeCrashes(h) == IF h = "deleted" THEN {"none", "close", "delete"} ELSE {"none"}

\* the effect of Nuke on the handle, after the operations pre of the cycle
NukeHandle(pre, c) ==
    /\ ops' = pre \o NukeOps(handle, c)
    /\ closeErr' \in (IF handle = "feed" /\ c # "close" THEN BOOLEAN ELSE {FALSE})
    /\ handle' = "deleted"
    /\ inq' = <<>>
    /\ outq' = <<>>

\* a return statement of Read: n bytes (chunk) and the error e
Return(n, e, chunk) ==
    /\ pc' = "idle"
    /\ retN' = n
    /\ retErr' = e
    /\ out' = IF e = "nil" /\ ~eos /\ ~disturbed' THEN out \o chunk ELSE out
    /\ eos' = (eos \/ e = "EOF")

\* the process dies inside a call
Crash ==
    /\ pc' = "crashed"
    /\ UNCHANGED <<retN, retErr, out, eos>>

Init ==
    /\ input \in Inputs
    /\ srcPos = 0
    /\ paranoid = FALSE
    /\ handle = "feed"
    /\ inq = <<>>
    /\ outq = <<>>
    /\ announced = FALSE
    /\ pc = "idle"
    /\ bytesLen = 0
    /\ err = "nil"
    /\ msg = "none"
    /\ done = 0
    /\ ops = <<>>
    /\ retN = 0
    /\ retErr = "none"
    /\ out = <<>>
    /\ eos = FALSE
    /\ closeErr = FALSE
    /\ args = <<44100, 1, "ENC_SIGNED_16">>
    /\ formats = DecoderReaderFormats(AllFormats, args[1], args[2], args[3])
    /\ fed = <<>>
    /\ decoder = ""
    /\ engine = "auto"
    /\ disturbed = FALSE

\* dr.Paranoid()
Paranoid ==
    /\ pc = "idle"
    /\ ~paranoid
    /\ paranoid' = TRUE
    /\ UNCHANGED <<input, srcPos, handle, inq, outq, announced, pc, bytesLen, err,
                   msg, done, ops, retN, retErr, out, eos, closeErr, formats, fed,
                   made, disturbed>>

\* dr.Nuke() called by the owner
Nuke ==
    /\ pc = "idle"
    /\ \E c \in NukeCrashes(handle) :
        /\ NukeHandle(<<>>, c)
        /\ pc' = IF c = "none" THEN "idle" ELSE "crashed"
    /\ disturbed' = TRUE
    /\ UNCHANGED <<input, srcPos, paranoid, announced, bytesLen, err, msg, done,
                   retN, retErr, out, eos, formats, fed, made>>

\* dr.Read(bytes) is called with a buffer of len bytes
CallRead ==
    /\ pc = "idle"
    /\ \E len \in 0..MaxBuf : bytesLen' = len
    /\ pc' = "upstream"
    /\ err' = "nil"
    /\ msg' = "none"
    /\ done' = 0
    /\ ops' = <<>>
    /\ retN' = 0
    /\ retErr' = "none"
    /\ closeErr' = FALSE
    /\ UNCHANGED <<input, srcPos, paranoid, handle, inq, outq, announced, out, eos,
                   formats, fed, made, disturbed>>

\* first half of a cycle: dr.src.Read(buf), then Feed or one of the error exits
Upstream ==
    /\ pc = "upstream"
    /\ \E r \in SrcRead(input, srcPos) :
        LET data == SubSeq(input, srcPos + 1, srcPos + r.n)
            br == UpstreamBranch(r.err, paranoid)
            src == <<Op("src", handle)>>
        IN  /\ srcPos' = srcPos + r.n
            /\ CASE br = "feed" ->
                    IF r.n = 0
                    THEN \* Feed takes &buf[0] of the empty slice buf[0:0]
                         /\ Crash
                         /\ err' = "nil"
                         /\ ops' = src
                         /\ UNCHANGED <<handle, inq, outq, closeErr, fed, disturbed>>
                    ELSE IF handle = "deleted"
                    THEN \* C.mpg123_feed on a freed handle
                         /\ ops' = src \o <<Op("feed", handle)>>
                         /\ fed' = fed \o data
                         /\ UNCHANGED <<handle, inq, outq, closeErr, disturbed>>
                         /\ \/ Crash /\ err' = "nil"
                            \/ /\ pc' = "poll"
                               /\ err' \in {"nil", "feedErr"}
                               /\ UNCHANGED <<retN, retErr, out, eos>>
                    ELSE \E f \in EngineFeed(inq, data) :
                         /\ ops' = src \o <<Op("feed", handle)>>
                         /\ fed' = fed \o data
                         /\ UNCHANGED closeErr
                         /\ inq' = f.inq
                         /\ err' = IF f.ok THEN "nil" ELSE "feedErr"
                         /\ disturbed' = (disturbed \/ ~f.ok)
                         /\ pc' = "poll"
                         /\ UNCHANGED <<handle, outq, retN, retErr, out, eos>>
                 [] br = "nuke_fail" ->
                    \E c \in NukeCrashes(handle) :
                         /\ NukeHandle(src, c)
                         /\ err' = r.err
                         /\ UNCHANGED fed
                         /\ disturbed' = TRUE
                         /\ IF c = "none" THEN Return(0, r.err, <<>>) ELSE Crash
                 [] br = "fail" ->
                         /\ err' = r.err
                         /\ ops' = src
                         /\ disturbed' = TRUE
                         /\ Return(0, r.err, <<>>)
                         /\ UNCHANGED <<handle, inq, outq, closeErr, fed>>
                 [] br = "nuke_eof" ->
                    \E c \in NukeCrashes(handle) :
                         /\ NukeHandle(src, c)
                         /\ err' = r.err
                         /\ UNCHANGED <<fed, disturbed>>
                         /\ IF c = "none" THEN Return(0, "EOF", <<>>) ELSE Crash
                 [] br = "poll" ->
                         /\ err' = r.err
                         /\ ops' = src
                         /\ pc' = "poll"
                         /\ UNCHANGED <<handle, inq, outq, retN, retErr, out, eos,
                                        closeErr, fed, disturbed>>
    /\ UNCHANGED <<input, paranoid, announced, bytesLen, msg, done, formats, made>>

\* a slip in the NEW_FORMAT case: the adapter lets the engine pick any format
OnNewFormat_AllowAll(fm, m) == IF m = "NEW_FORMAT" THEN FormatAll(fm) ELSE fm

\* what the case of the status m does to the allowed formats: NEW_FORMAT asks
\* for the format (GetFormat) and logs it, and no case sets a format
OnNewFormat(fm, m) == fm

\* what follows C.mpg123_read in a cycle: r is its result, live tells whether
\* the handle it ran on was alive
AfterRead(r, live) ==
    LET br == PollBranch(r.msg, r.done, err)
        pre == ops \o <<Op("read", handle)>>
               \o (IF r.msg = "NEW_FORMAT" THEN <<Op("getformat", handle)>> ELSE <<>>)
    IN  /\ msg' = r.msg
        /\ done' = r.done
        /\ formats' = OnNewFormat(formats, r.msg)
        /\ CASE br = "bytes" ->
                /\ ops' = pre
                /\ UNCHANGED <<closeErr, disturbed>>
                /\ Return(r.done, "nil", r.data)
                /\ IF live
                   THEN inq' = r.inq /\ outq' = r.outq /\ announced' = r.announced
                   ELSE UNCHANGED <<inq, outq, announced>>
                /\ UNCHANGED handle
             [] br = "eof" ->
                \E c \in NukeCrashes(handle) :
                    /\ NukeHandle(pre, c)
                    /\ UNCHANGED disturbed
                    /\ announced' = IF live THEN r.announced ELSE announced
                    /\ IF c = "none" THEN Return(r.done, "EOF", <<>>) ELSE Crash
             [] br = "loop" ->
                /\ ops' = pre
                /\ UNCHANGED closeErr
                /\ disturbed' = (disturbed \/ (live /\ r.msg = "ERR"))
                /\ pc' = "upstream"
                /\ IF live
                   THEN inq' = r.inq /\ outq' = r.outq /\ announced' = r.announced
                   ELSE UNCHANGED <<inq, outq, announced>>
                /\ UNCHANGED <<handle, retN, retErr, out, eos>>

\* second half of a cycle: C.mpg123_read into bytes and the switch on its status
Poll ==
    /\ pc = "poll"
    /\ IF bytesLen = 0
       THEN \* &bytes[0] of an empty buffer
            /\ Crash
            /\ UNCHANGED <<handle, inq, outq, announced, msg, done, ops, closeErr,
                           formats, disturbed>>
       ELSE IF handle = "deleted"
       THEN \/ /\ Crash
               /\ ops' = ops \o <<Op("read", handle)>>
               /\ UNCHANGED <<handle, inq, outq, announced, msg, done, closeErr,
                              formats, disturbed>>
            \/ \E r \in StaleRead(bytesLen) : AfterRead(r, FALSE)
       ELSE \E r \in EngineRead(inq, outq, announced, bytesLen) : AfterRead(r, TRUE)
    /\ UNCHANGED <<input, srcPos, paranoid, bytesLen, err, fed, made>>

Next ==
    \/ Paranoid
    \/ Nuke
    \/ CallRead
    \/ Upstream
    \/ Poll

Spec == Init /\ [][Next]_vars

TypeOK ==
    /\ input \in Inputs
    /\ srcPos \in 0..Len(input)
    /\ paranoid \in BOOLEAN
    /\ handle \in {"feed", "deleted"}
    /\ pc \in {"idle", "upstream", "poll", "crashed"}
    /\ bytesLen \in 0..MaxBuf
    /\ err \in {"nil", "EOF", "feedErr"} \cup SrcErrors
    /\ msg \in Statuses \cup {"none"}
    /\ done \in 0..MaxBuf
    /\ retN \in 0..MaxBuf
    /\ retErr \in {"none", "nil", "EOF"} \cup SrcErrors
    /\ closeErr \in BOOLEAN
    /\ formats \subseteq AllFormats
    /\ args \in AllFormats
    /\ Len(fed) <= Len(input)

\* a handle is only ever found deleted after a disturbance or after end-of-stream
DeletedOnlyAfter == handle = "deleted" => (disturbed \/ eos)

(* ------------------------- the Decoder by itself ------------------------ *)
\* the decoder names a caller may ask for, and the ones the engine has
Names == {"", "generic", "bogus"}
Supported == {"generic"}

\* the first argument of C.mpg123_new for the name asked for
NewArg(name) == IF name # "" THEN "NULL" ELSE name

\* C.mpg123_new: NULL and the empty name pick the decoder automatically, a
\* supported name picks that decoder, any other name fails; "none" is no
\* instance (which may also be for lack of memory)
EngineNew(arg) ==
    IF arg \in {"NULL", ""} THEN {"auto", "none"}
    ELSE IF arg \in Supported THEN {arg, "none"}
    ELSE {"none"}

\* a slip in Decoder.Read: the count is dropped when the engine reports DONE
DecoderReadResult_DropOnDone(m, d) ==
    IF m = "DONE" THEN [n |-> 0, err |-> "mpg123.EOF"]
    ELSE IF m # "OK" THEN [n |-> d, err |-> "mpgErr"]
    ELSE [n |-> d, err |-> "nil"]

\* what Decoder.Read returns for the status m and the count d of C.mpg123_read
DecoderReadResult(m, d) ==
    IF m = "DONE" THEN [n |-> d, err |-> "mpg123.EOF"]
    ELSE IF m # "OK" THEN [n |-> d, err |-> "mpgErr"]
    ELSE [n |-> d, err |-> "nil"]

\* what no method of Decoder touches: the adapter's source and its cycle
cycle == <<input, srcPos, bytesLen, err, eos, disturbed>>

\* the chunks a caller may hand to Decoder.Feed
Chunks == UNION {[1..n -> Byte] : n \in 0..ScratchLen}

InitDecoder ==
    /\ input = <<>>
    /\ srcPos = 0
    /\ paranoid = FALSE
    /\ handle = "none"
    /\ inq = <<>>
    /\ outq = <<>>
    /\ announced = FALSE
    /\ pc = "start"
    /\ bytesLen = 0
    /\ err = "nil"
    /\ msg = "none"
    /\ done = 0
    /\ ops = <<>>
    /\ retN = 0
    /\ retErr = "none"
    /\ out = <<>>
    /\ eos = FALSE
    /\ closeErr = FALSE
    /\ formats = {}
    /\ fed = <<>>
    /\ decoder = ""
    /\ engine = "none"
    /\ args = <<44100, 1, "ENC_SIGNED_16">>
    /\ disturbed = FALSE

\* NewDecoder(name).  Without an instance it returns an error and no Decoder,
\* after it has freed the engine's static error string, which may end the
\* process.
NewDecoder ==
    /\ pc = "start"
    /\ \E name \in Names : \E e \in EngineNew(NewArg(name)) :
        /\ decoder' = name
        /\ engine' = e
        /\ IF e = "none"
           THEN /\ handle' = "none"
                /\ formats' = {}
                /\ pc' \in {"start", "crashed"}
           ELSE /\ handle' = "new"
                /\ formats' = AllFormats
                /\ pc' = "dec"
    /\ UNCHANGED <<cycle, ops, paranoid, inq, outq, announced, msg, done, retN, retErr, out,
                   closeErr, fed, args>>

\* a method of Decoder can be called: there is a handle that was not deleted
\* (what happens once an adapter is made is the matter of Spec)
Callable == pc = "dec" /\ handle \in {"new", "feed"}

\* d.FormatNone()
CallFormatNone ==
    /\ Callable
    /\ formats' = FormatNone(formats)
    /\ UNCHANGED <<cycle, ops, made, paranoid, handle, inq, outq, announced, pc, msg, done,
                   retN, retErr, out, closeErr, fed>>

\* d.FormatAll()
CallFormatAll ==
    /\ Callable
    /\ formats' = FormatAll(formats)
    /\ UNCHANGED <<cycle, ops, made, paranoid, handle, inq, outq, announced, pc, msg, done,
                   retN, retErr, out, closeErr, fed>>

\* d.Format(rate, channels, encodings)
CallFormat ==
    /\ Callable
    /\ \E f \in AllFormats : formats' = Format(formats, f[1], f[2], f[3])
    /\ UNCHANGED <<cycle, ops, made, paranoid, handle, inq, outq, announced, pc, msg, done,
                   retN, retErr, out, closeErr, fed>>

\* d.OpenFeed(): the handle is opened for feeding, anew if it was open, or
\* the engine reports an error and the handle stays as it was
OpenFeed ==
    /\ Callable
    /\ \/ /\ handle' = "feed"
          /\ inq' = <<>>
          /\ outq' = <<>>
          /\ announced' = FALSE
       \/ UNCHANGED <<handle, inq, outq, announced>>
    /\ UNCHANGED <<cycle, ops, made, paranoid, pc, msg, done, retN, retErr, out, closeErr,
                   formats, fed>>

\* d.Close()
Close ==
    /\ Callable
    /\ handle' = "new"
    /\ inq' = <<>>
    /\ outq' = <<>>
    /\ UNCHANGED <<cycle, ops, made, paranoid, announced, pc, msg, done, retN, retErr, out,
                   closeErr, formats, fed>>

\* d.Delete()
Delete ==
    /\ Callable
    /\ handle' = "deleted"
    /\ inq' = <<>>
    /\ outq' = <<>>
    /\ UNCHANGED <<cycle, ops, made, paranoid, announced, pc, msg, done, retN, retErr, out,
                   closeErr, formats, fed>>

\* d.Feed(buf): &buf[0] panics on an empty buf; a handle not open for feeding
\* rejects the bytes
DecoderFeed ==
    /\ Callable
    /\ \E data \in Chunks :
        /\ Len(inq) + Len(outq) + Len(data) <= MaxInput
        /\ IF data = <<>>
           THEN /\ pc' = "crashed"
                /\ UNCHANGED inq
           ELSE /\ UNCHANGED pc
                /\ IF handle = "feed"
                   THEN \E f \in EngineFeed(inq, data) : inq' = f.inq
                   ELSE UNCHANGED inq
    /\ UNCHANGED <<cycle, ops, made, paranoid, handle, outq, announced, msg, done, retN,
                   retErr, out, closeErr, formats, fed>>

\* d.Read(buf) with a buf of sz bytes: &buf[0] panics on an empty buf; a
\* handle not open gives ERR and no bytes
DecoderRead ==
    /\ Callable
    /\ \E sz \in 0..MaxBuf :
        IF sz = 0
        THEN /\ pc' = "crashed"
             /\ UNCHANGED <<inq, outq, announced, msg, done, retN, retErr>>
        ELSE \E r \in (IF handle = "feed"
                        THEN EngineRead(inq, outq, announced, sz)
                        ELSE {[msg |-> "ERR", done |-> 0, data |-> <<>>, inq |-> inq,
                               outq |-> outq, announced |-> announced]}) :
                /\ msg' = r.msg
                /\ done' = r.done
                /\ inq' = r.inq
                /\ outq' = r.outq
                /\ announced' = r.announced
                /\ retN' = DecoderReadResult(r.msg, r.done).n
                /\ retErr' = DecoderReadResult(r.msg, r.done).err
                /\ UNCHANGED pc
    /\ UNCHANGED <<cycle, ops, made, paranoid, handle, out, closeErr, formats, fed>>

\* d.DecoderReader(src, fps, channels, encoding)
DecoderReader ==
    /\ pc \in {"dec", "idle"}
    /\ handle \in {"new", "feed"}
    /\ \E f \in AllFormats :
        /\ formats' = DecoderReaderFormats(formats, f[1], f[2], f[3])
        /\ args' = f
    /\ paranoid' = FALSE
    /\ ops' = <<Op("DecoderReader", handle)>>
    /\ pc' = "idle"
    /\ UNCHANGED <<cycle, decoder, engine, handle, inq, outq, announced, msg, done,
                   retN, retErr, out, closeErr, fed>>

\* d.MonoDecoderReader(src, fps, encoding): d.DecoderReader with 1 channel
MonoDecoderReader ==
    /\ pc \in {"dec", "idle"}
    /\ handle \in {"new", "feed"}
    /\ \E fps \in Rates : \E encoding \in Encodings :
        /\ formats' = DecoderReaderFormats(formats, fps, 1, encoding)
        /\ args' = <<fps, 1, encoding>>
    /\ paranoid' = FALSE
    /\ ops' = <<Op("MonoDecoderReader", handle)>>
    /\ pc' = "idle"
    /\ UNCHANGED <<cycle, decoder, engine, handle, inq, outq, announced, msg, done,
                   retN, retErr, out, closeErr, fed>>

\* a method of Decoder called on the deleted handle lets the engine use freed
\* memory: the process may die, or go on
StaleCall ==
    /\ pc = "dec"
    /\ handle = "deleted"
    /\ pc' \in {pc, "crashed"}
    /\ UNCHANGED <<cycle, ops, made, paranoid, handle, inq, outq, announced, msg, done,
                   retN, retErr, out, closeErr, formats, fed>>

NextDecoder ==
    \/ NewDecoder
    \/ CallFormatNone
    \/ CallFormatAll
    \/ CallFormat
    \/ OpenFeed
    \/ Close
    \/ Delete
    \/ DecoderFeed
    \/ DecoderRead
    \/ DecoderReader
    \/ MonoDecoderReader
    \/ Paranoid
    \/ StaleCall

SpecDecoder == InitDecoder /\ [][NextDecoder]_vars

(* ------------------------------ claims --------------------------------- *)
\* a Read call returns in this step
Returns == pc # "idle" /\ pc' = "idle"

\* the operations of the current cycle that touch the engine handle
EngineOps == {i \in DOMAIN ops : ops[i].op # "src"}

\* the current cycle ended with a teardown: Close, then Delete
EndsWithNuke(o) ==
    /\ Len(o) >= 2
    /\ o[Len(o) - 1].op = "close"
    /\ o[Len(o)].op = "delete"

\* C1: when a Read call returns end-of-stream in an undisturbed run (no engine
\* fault, no upstream error, no manual Nuke), the chunks returned so far with a
\* nil error, put together, are the output the engine gives for the whole input.
C1_OutputIsWholeDecode ==
    (pc = "idle" /\ retErr = "EOF" /\ ~disturbed) => out = DecodeAll(input)

\* C2: in either mode, a cycle whose upstream read reports EOF goes on to the
\* poll, and end-of-stream is only returned from a poll that wrote zero bytes.
C2_EofGoesOnToPoll ==
    [][/\ (pc = "upstream" /\ err' = "EOF") => pc' = "poll"
       /\ (Returns /\ retErr' = "EOF") => (pc = "poll" /\ done' = 0)]_vars

\* C3: a Read call that returns a count above zero returns a nil error, and a
\* Read call that returns end-of-stream returns the count zero.
C3_BytesXorEof ==
    pc = "idle" => /\ retN > 0 => retErr = "nil"
                   /\ retErr = "EOF" => retN = 0

\* C3 witness: bytes came back with a nil error from a poll whose status was
\* DONE, in fail-fast mode.
C3_Witness ==
    pc = "idle" /\ retN > 0 /\ retErr = "nil" /\ msg = "DONE" /\ paranoid

\* C4: a poll of the live handle that writes a count above zero ends the call,
\* and the count is the call's result with a nil error.
C4_NonzeroPollEndsCall ==
    [][(pc = "poll" /\ handle = "feed" /\ pc' # "crashed" /\ done' > 0)
          => (pc' = "idle" /\ retN' = done' /\ retErr' = "nil")]_vars

\* C5: a Read call that returns end-of-stream has run Close and Delete as the
\* last operations of its last cycle and leaves the handle deleted; without
\* fail-fast it does so only from a poll that wrote zero bytes in a cycle whose
\* upstream read reported EOF.
C5_EofAfterTeardown ==
    [][(Returns /\ retErr' = "EOF")
          => /\ handle' = "deleted"
             /\ EndsWithNuke(ops')
             /\ ~paranoid => (pc = "poll" /\ err = "EOF" /\ done' = 0)]_vars

\* C5 witness: without fail-fast, a stream that gave output has ended: the
\* sentinel is back and the handle, alive when the cycle began, is deleted.
C5_Witness ==
    /\ pc = "idle" /\ retErr = "EOF" /\ ~paranoid /\ ~disturbed
    /\ Len(out) > 0
    /\ handle = "deleted"
    /\ ops[1] = Op("src", "feed")

\* C6: in an undisturbed run (in particular one without a manual Nuke), Delete
\* never runs on a handle that is already deleted.
C6_DeleteAtMostOnce ==
    ~disturbed => \A i \in DOMAIN ops : ops[i].op = "delete" => ops[i].h = "feed"

\* C7: after the adapter tore its handle down on an end-of-stream return, a
\* later Read call (its cycle began on the deleted handle) runs no feed, poll,
\* format query, Close or Delete on it and does not return with a nil error.
C7_NoUseAfterTeardown ==
    (eos /\ ~disturbed /\ ops # <<>> /\ ops[1] = Op("src", "deleted"))
        => /\ EngineOps = {}
           /\ ~(pc = "idle" /\ retErr = "nil")

\* C8: in fail-fast mode a cycle whose upstream read fails with an error other
\* than EOF returns zero bytes and that error, with the handle deleted by a
\* Close and a Delete and no poll in the cycle.
C8_FailFastAbort ==
    [][(pc = "upstream" /\ paranoid /\ err' \in SrcErrors /\ pc' # "crashed")
          => /\ pc' = "idle" /\ retN' = 0 /\ retErr' = err'
             /\ handle' = "deleted"
             /\ ops' = <<Op("src", handle), Op("close", handle), Op("delete", handle)>>]_vars

\* C8 witness: the upstream failed after delivering bytes, and the fail-fast
\* call came back with the error and a handle it deleted itself.
C8_Witness ==
    /\ pc = "idle" /\ paranoid /\ retErr \in SrcErrors /\ retN = 0
    /\ srcPos > 0
    /\ handle = "deleted"
    /\ ops = <<Op("src", "feed"), Op("close", "feed"), Op("delete", "feed")>>

\* C9: without fail-fast a cycle whose upstream read fails with an error other
\* than EOF returns zero bytes and that error, and runs no engine operation:
\* the handle, its queued input and its pending output are as before.
C9_ErrorLeavesHandle ==
    [][(pc = "upstream" /\ ~paranoid /\ err' \in SrcErrors)
          => /\ pc' = "idle" /\ retN' = 0 /\ retErr' = err'
             /\ UNCHANGED <<handle, inq, outq, announced>>
             /\ ops' = <<Op("src", handle)>>]_vars

\* C9 witness: the call came back with the upstream's error while the live
\* handle still holds queued input or pending output.
C9_Witness ==
    /\ pc = "idle" /\ ~paranoid /\ retErr \in SrcErrors /\ retN = 0
    /\ handle = "feed"
    /\ Len(inq) + Len(outq) > 0
    /\ ops = <<Op("src", "feed")>>

\* C10: a poll of the live handle that reports a hard error ends the call with
\* a decode error, and without fail-fast the handle is not torn down.
C10_HardErrorReturned ==
    [][(pc = "poll" /\ handle = "feed" /\ pc' # "crashed" /\ msg' = "ERR")
          => /\ pc' = "idle" /\ retErr' \notin {"none", "nil", "EOF"}
             /\ ~paranoid => handle' = handle]_vars

\* C11: a cycle of the live handle whose upstream read reported EOF and whose
\* poll wrote zero bytes does not go round again: the adapter loops on a
\* zero-byte poll only while the upstream has not reported EOF (so that every
\* call on a finite source comes back).
C11_LoopsOnlyBeforeEof ==
    [][(pc = "poll" /\ handle = "feed" /\ err = "EOF" /\ done' = 0 /\ pc' # "crashed")
          => pc' # "upstream"]_vars

C14_FeedErrorSwallowed ==
    [][/\ (pc = "upstream" /\ handle = "feed" /\ err' = "feedErr")
            => (pc' = "poll" /\ handle' = "feed" /\ outq' = outq)
       /\ (pc = "poll" /\ handle = "feed" /\ err = "feedErr" /\ pc' # "crashed")
            => /\ handle' = "feed"
               /\ IF done' > 0 /\ msg' # "ERR"
                  THEN pc' = "idle" /\ retN' = done' /\ retErr' = "nil"
                  ELSE pc' = "upstream"]_vars

\* C14 witness: in fail-fast mode a call returned bytes from the poll of a
\* cycle whose feed was rejected, and the handle is alive.
C14_Witness ==
    /\ pc = "idle" /\ paranoid /\ err = "feedErr"
    /\ retN > 0 /\ retErr = "nil"
    /\ handle = "feed"
    /\ ops = <<Op("src", "feed"), Op("feed", "feed"), Op("read", "feed")>>


\* C17: a teardown of the live handle is Close and then Delete on that handle,
\* as the last two operations of the cycle and once each, also when Close
\* reported an error; no read of the upstream source follows the Close, and the
\* position in the source is the one before the teardown.
C17_NukeClosesThenDeletes ==
    [][((handle = "feed" /\ handle' # "feed") \/ (closeErr' /\ ~closeErr))
          => LET n == Len(ops')
             IN  /\ handle' = "deleted"
                 /\ n >= 2
                 /\ ops'[n - 1] = Op("close", "feed")
                 /\ ops'[n] = Op("delete", "feed")
                 /\ \A i \in 1..(n - 2) : ops'[i].op \notin {"close", "delete"}
                 /\ (pc = "idle" => (n = 2 /\ srcPos' = srcPos))]_vars

\* C17 happens: a teardown whose Close reported an error has deleted the handle
C17_Witness ==
    /\ closeErr
    /\ handle = "deleted"
    /\ pc = "idle"
    /\ ops = <<Op("close", "feed"), Op("delete", "feed")>>

\* C18: a poll of the live handle that reports NEW_FORMAT ends the cycle as OK
\* would: the bytes with a nil error if any were written, else end-of-stream if
\* the upstream read of this cycle reported EOF, else another cycle; and no
\* step changes the allowed formats, which stay the one format of construction.
C18_NewFormatLikeOk ==
    [][/\ (pc = "poll" /\ handle = "feed" /\ msg' = "NEW_FORMAT" /\ pc' # "crashed")
            => /\ PollBranch("NEW_FORMAT", done', err) = PollBranch("OK", done', err)
               /\ IF done' > 0
                  THEN pc' = "idle" /\ retN' = done' /\ retErr' = "nil" /\ handle' = "feed"
                  ELSE IF err = "EOF"
                       THEN pc' = "idle" /\ retN' = 0 /\ retErr' = "EOF"
                       ELSE pc' = "upstream"
       /\ formats' = formats
       /\ Cardinality(formats') = 1]_vars

\* C18 happens: a Read call returned the bytes of a poll that reported NEW_FORMAT
C18_Witness ==
    /\ pc = "idle"
    /\ msg = "NEW_FORMAT"
    /\ retN > 0
    /\ retErr = "nil"
    /\ handle = "feed"
    /\ formats = {<<44100, 1, "ENC_SIGNED_16">>}

\* C19: when a Read call on the live handle returns end-of-stream, and no
\* upstream error, engine fault or manual Nuke came before, the bytes handed to
\* Feed are the bytes the source delivered, once each and in order.
C19_EveryByteFed ==
    (pc = "idle" /\ retErr = "EOF" /\ ~disturbed /\ ops # <<>> /\ ops[Len(ops)].h = "feed")
        => fed = SubSeq(input, 1, srcPos)

\* C20: an upstream read on the live handle that delivers no byte and a nil
\* error goes on to the poll without a call of Feed.
C20_EmptyReadGoesOn ==
    [][(pc = "upstream" /\ handle = "feed" /\ err' = "nil" /\ srcPos' = srcPos)
          => (pc' = "poll" /\ \A i \in DOMAIN ops' : ops'[i].op # "feed")]_vars

\* C13: a call of DecoderReader or MonoDecoderReader leaves exactly the format
\* of its arguments allowed, whatever was allowed before, with 1 channel when
\* it is MonoDecoderReader; it leaves the handle as open or closed as it was,
\* with what the engine holds, and the adapter it returns is not fail-fast.
C13_ConstructorSetsOneFormat ==
    [][(pc' = "idle" /\ ~(~paranoid /\ paranoid'))
          => /\ formats' = {args'}
             /\ ops'[1].op = "MonoDecoderReader" => args'[2] = 1
             /\ handle' = handle
             /\ inq' = inq /\ outq' = outq /\ announced' = announced
             /\ ~paranoid']_vars

\* C13 happens: DecoderReader was called for 2 channels on a handle open for
\* feeding
C13_Witness ==
    /\ pc = "idle"
    /\ ops = <<Op("DecoderReader", "feed")>>
    /\ formats = {<<44100, 2, "ENC_SIGNED_16">>}
    /\ ~paranoid

\* C15: a Decoder made for a non-empty name has an engine instance created for
\* that name (so that there is none for a name the engine does not have).
C15_NameReachesEngine ==
    (decoder # "" /\ handle # "none") => engine = decoder

\* C16: what Decoder.Read returned last is the count the engine wrote, with a
\* nil error for OK, the sentinel EOF of the package for DONE, and another
\* error for any other status.
C16_ReadReturnsCount ==
    msg # "none"
        => /\ retN = done
           /\ msg = "OK" => retErr = "nil"
           /\ msg = "DONE" => retErr = "mpg123.EOF"
           /\ msg \notin {"OK", "DONE"} => retErr \notin {"nil", "mpg123.EOF", "none"}

\* C16 happens: Decoder.Read returned bytes together with the sentinel
C16_Witness ==
    /\ pc = "dec"
    /\ msg = "DONE"
    /\ retN > 0
    /\ retErr = "mpg123.EOF"
=============================================================================
